---- MODULE Spec2Model ----
(***************************************************************************)
(* Model of the benchmark CLI (benchmark.py) and of the parallel runner    *)
(* (parallel_runner.py).                                                   *)
(*                                                                         *)
(* A benchmark CLI process is one run of benchmark.main(); the parallel    *)
(* runner starts one multiprocessing.Process per argument set, each of     *)
(* which runs run_benchmark(), which in turn runs the CLI as a subprocess. *)
(* The CLI processes share the working directory (the logs/ folder) and    *)
(* the wall clock.                                                         *)
(*                                                                         *)
(* Numbers: time.time() is the integer wall clock (one unit is the second  *)
(* of the log file's timestamp), so durations are integers; avg_time and   *)
(* throughput are exact rationals [num, den], throughput with an extra     *)
(* 'inf' flag for float('inf').  The readings of a metrics sample are      *)
(* opaque tokens: the program stores them in the log and never inspects    *)
(* them.  A timed model call is one step that takes the wall clock from    *)
(* its start time to its end time.                                         *)
(***************************************************************************)
EXTENDS Integers, Sequences, FiniteSets, TLC

\* ---------------------------------------------------------------- bounds
MaxIter == 2            \* largest --iterations value tried on a single CLI run
MaxClock == 1           \* wall clock seconds range over 0..MaxClock
RunnerIterations == 1   \* stands for the runner's "--iterations 30"

\* ------------------------------------------------------ program constants
NumProcs == 3           \* number of argument sets in benchmark_args
Procs == 0 .. (NumProcs - 1)

\* Model names are sequences of tokens ("_" is a token of its own).
AVAILABLE_MODELS == { <<"resnet18">>, <<"mobilenet", "_", "v2">>, <<"alexnet">> }

\* str.lower() on the tokens that occur
LowerTok(t) ==
  CASE t = "ResNet18" -> "resnet18"
    [] t = "ALEXNET"  -> "alexnet"
    [] OTHER          -> t

Lower(s) == [k \in DOMAIN s |-> LowerTok(s[k])]

\* values of --model tried on the command line
ModelArgs == AVAILABLE_MODELS \cup { <<"ResNet18">>, <<"ALEXNET">>, <<"vgg16">> }

\* argparse result (args.model, args.iterations, args.batch_size,
\* args.mock_delay, args.save_logs); the int/float options accept any sign
ArgSets ==
  [ model : ModelArgs, iterations : (-1) .. MaxIter, batch_size : (-1) .. 2,
    mock_delay : (-1) .. 1, save_logs : BOOLEAN ]

\* the three argument sets of parallel_runner.main
SourceArgs ==
  [ p \in Procs |->
      CASE p = 0 -> [ model |-> <<"resnet18">>, iterations |-> RunnerIterations,
                      batch_size |-> 1, mock_delay |-> 0, save_logs |-> TRUE ]
        [] p = 1 -> [ model |-> <<"mobilenet", "_", "v2">>, iterations |-> RunnerIterations,
                      batch_size |-> 2, mock_delay |-> 0, save_logs |-> TRUE ]
        [] OTHER -> [ model |-> <<"alexnet">>, iterations |-> RunnerIterations,
                      batch_size |-> 1, mock_delay |-> 1, save_logs |-> TRUE ] ]

\* argument lists the runner is tried with: the source's own, the source's
\* with child 1 benchmarking the same model as child 0, and the source's with
\* child 1 naming an unsupported model
WithModel(k, m) == [ SourceArgs EXCEPT ![k].model = m ]

ArgLists ==
  { SourceArgs, WithModel(1, <<"ResNet18">>) } \cup { WithModel(k, <<"vgg16">>) : k \in Procs }

\* ------------------------------------------------------------ pure helpers
RECURSIVE Sum(_)
Sum(s) == IF s = <<>> THEN 0 ELSE Head(s) + Sum(Tail(s))

Digit(d) == <<"0", "1", "2", "3", "4", "5", "6", "7", "8", "9">>[d + 1]

TwoDigits(n) == << Digit(n \div 10), Digit(n % 10) >>

\* time.strftime("%Y%m%d_%H%M%S") at wall-clock second t of a fixed hour
StrfTime(t) == << "20240101", "_", "09" >> \o TwoDigits((t \div 60) % 60) \o TwoDigits(t % 60)

\* the file name without its timestamp part
FileName_NoTimestamp(model_name, timestamp_str) ==
  << "logs", "/", "metrics_log", "_" >> \o model_name \o << ".json" >>

\* os.path.join("logs", f"metrics_log_{model_name}_{timestamp_str}.json")
FileName(model_name, timestamp_str) ==
  << "logs", "/", "metrics_log", "_" >> \o model_name \o << "_" >> \o timestamp_str \o << ".json" >>

\* get_system_metrics() at time t: the three readings are opaque values the
\* program stores and never inspects
get_system_metrics(t) ==
  [ cpu_percent |-> "cpu", memory_percent |-> "mem", timestamp |-> "time" ]

\* the mean taken over one element too many
AvgTime_OffByOne(times) ==
  IF Len(times) > 0 THEN [ num |-> Sum(times), den |-> Len(times) + 1 ]
                    ELSE [ num |-> 0, den |-> 1 ]

\* avg_time = sum(times) / len(times) if len(times) > 0 else 0.0
AvgTime(times) ==
  IF Len(times) > 0 THEN [ num |-> Sum(times), den |-> Len(times) ]
                    ELSE [ num |-> 0, den |-> 1 ]

\* throughput = 1.0 / avg_time if avg_time != 0 else float('inf')
Throughput(avg) ==
  IF avg.num # 0 THEN [ inf |-> FALSE, num |-> avg.den, den |-> avg.num ]
                 ELSE [ inf |-> TRUE, num |-> 0, den |-> 1 ]

NoRat == [ num |-> 0, den |-> 0 ]
NoThroughput == [ inf |-> FALSE, num |-> 0, den |-> 0 ]

\* ------------------------------------------------------------------ state
VARIABLES
  benchmark_args,  \* argument set of each CLI process
  ppc,             \* position of parallel_runner.main ("none" when there is no runner)
  processes,       \* the runner's list of started Process objects
  join_log,        \* children the runner's join() has returned for, in order
  rpc,             \* position of each child's run_benchmark
  rb_out,          \* last line printed by each run_benchmark
  pc,              \* position of each CLI process in benchmark.main
  exc,             \* exception that ended the CLI process, "none" if none
  model_name,      \* args.model.lower()
  constructed,     \* model_fn(pretrained=True) was called
  calls,           \* number of invocations of the model callable
  i,               \* loop variable of benchmark_model
  times,           \* benchmark_model's times
  metrics_log,     \* benchmark_model's metrics_log
  returned,        \* benchmark_model returned
  avg_time,
  throughput,
  cli_out,         \* last message printed by the CLI process
  timestamp_str,
  file_path,
  logs_dir,        \* the logs/ directory exists
  files,           \* files under logs/: path -> content
  clock            \* wall clock, whole seconds

runner_vars == << ppc, processes, join_log, rpc, rb_out >>
bench_vars == << calls, i, times, metrics_log, returned, avg_time, throughput >>
save_vars == << timestamp_str, file_path, logs_dir, files >>
vars == << benchmark_args, runner_vars, pc, exc, model_name, constructed, bench_vars,
           cli_out, save_vars, clock >>

\* ------------------------------------------------------------------- Init
InitCommon ==
  /\ exc = [p \in Procs |-> "none"]
  /\ model_name = [p \in Procs |-> <<>>]
  /\ constructed = [p \in Procs |-> FALSE]
  /\ calls = [p \in Procs |-> 0]
  /\ i = [p \in Procs |-> 0]
  /\ times = [p \in Procs |-> <<>>]
  /\ metrics_log = [p \in Procs |-> <<>>]
  /\ returned = [p \in Procs |-> FALSE]
  /\ avg_time = [p \in Procs |-> NoRat]
  /\ throughput = [p \in Procs |-> NoThroughput]
  /\ cli_out = [p \in Procs |-> "none"]
  /\ timestamp_str = [p \in Procs |-> <<>>]
  /\ file_path = [p \in Procs |-> <<>>]
  /\ files = <<>>
  /\ clock = 0
  /\ processes = <<>>
  /\ join_log = <<>>
  /\ rpc = [p \in Procs |-> "none"]
  /\ rb_out = [p \in Procs |-> "none"]

\* the parallel runner about to start, no child created yet
Init ==
  /\ InitCommon
  /\ logs_dir \in BOOLEAN
  /\ benchmark_args \in ArgLists
  /\ ppc = "start"
  /\ pc = [p \in Procs |-> "notstarted"]

\* one benchmark CLI process (process 0) started directly from a shell
InitCLI ==
  /\ InitCommon
  /\ logs_dir \in BOOLEAN
  /\ \E a \in ArgSets : benchmark_args = [p \in Procs |-> a]
  /\ ppc = "none"
  /\ pc = [p \in Procs |-> IF p = 0 THEN "main" ELSE "notstarted"]

\* ------------------------------------------------------- benchmark.main()
\* the exception is swallowed and the run goes on to save what it has
Raise_SavePartial(p, e) ==
  /\ pc' = [pc EXCEPT ![p] = IF benchmark_args[p].save_logs THEN "check_dir" ELSE "exit0"]
  /\ exc' = [exc EXCEPT ![p] = e]

\* the process dies of an uncaught exception e (exit status 1)
Raise(p, e) ==
  /\ pc' = [pc EXCEPT ![p] = "exit1"]
  /\ exc' = [exc EXCEPT ![p] = e]

\* the validation without its return statement
Main_Setup_NoReturn(p) ==
  /\ pc[p] = "main"
  /\ model_name' = [model_name EXCEPT ![p] = Lower(benchmark_args[p].model)]
  /\ cli_out' = [cli_out EXCEPT ![p] =
                   IF model_name'[p] \notin AVAILABLE_MODELS THEN "unsupported" ELSE @]
  /\ constructed' = [constructed EXCEPT ![p] = TRUE]
  /\ pc' = [pc EXCEPT ![p] = "warmup"]
  /\ UNCHANGED << benchmark_args, runner_vars, exc, bench_vars, save_vars, clock >>

\* lines 115-136: parse, lower-case and validate the model name, then
\* construct the model
Main_Setup(p) ==
  /\ pc[p] = "main"
  /\ model_name' = [model_name EXCEPT ![p] = Lower(benchmark_args[p].model)]
  /\ IF model_name'[p] \notin AVAILABLE_MODELS
       THEN /\ cli_out' = [cli_out EXCEPT ![p] = "unsupported"]
            /\ pc' = [pc EXCEPT ![p] = "exit0"]
            /\ UNCHANGED constructed
       ELSE /\ constructed' = [constructed EXCEPT ![p] = TRUE]
            /\ pc' = [pc EXCEPT ![p] = "warmup"]
            /\ UNCHANGED cli_out
  /\ UNCHANGED << benchmark_args, runner_vars, exc, bench_vars, save_vars, clock >>

\* lines 36-42: dummy input, warm-up call, empty lists
Bench_WarmUp(p) ==
  /\ pc[p] = "warmup"
  /\ IF benchmark_args[p].batch_size < 0
       THEN \* torch.randn rejects a negative dimension
            /\ Raise(p, "RuntimeError")
            /\ UNCHANGED bench_vars
       ELSE /\ calls' = [calls EXCEPT ![p] = @ + 1]
            /\ \/ /\ Raise(p, "ModelError")
                  /\ UNCHANGED << i, times, metrics_log >>
               \/ /\ pc' = [pc EXCEPT ![p] = "loop"]
                  /\ i' = [i EXCEPT ![p] = 0]
                  /\ times' = [times EXCEPT ![p] = <<>>]
                  /\ metrics_log' = [metrics_log EXCEPT ![p] = <<>>]
                  /\ UNCHANGED exc
            /\ UNCHANGED << returned, avg_time, throughput >>
  /\ UNCHANGED << benchmark_args, runner_vars, model_name, constructed, cli_out,
                  save_vars, clock >>

\* the record numbered from 1
IterationRecord_OffByOne(k, t0, t1, elapsed_time) ==
  [ iteration |-> k + 1, before |-> get_system_metrics(t0), after |-> get_system_metrics(t1),
    inference_time |-> elapsed_time ]

\* the record appended by one iteration
IterationRecord(k, t0, t1, elapsed_time) ==
  [ iteration |-> k, before |-> get_system_metrics(t0), after |-> get_system_metrics(t1),
    inference_time |-> elapsed_time ]

\* lines 44-66: one pass of the for loop; the timed call lasts d clock units
Bench_Iteration(p) ==
  /\ pc[p] = "loop"
  /\ i[p] < benchmark_args[p].iterations
  /\ IF benchmark_args[p].mock_delay < 0
       THEN \* time.sleep rejects a negative length
            /\ Raise(p, "ValueError")
            /\ UNCHANGED << bench_vars, clock >>
       ELSE /\ calls' = [calls EXCEPT ![p] = @ + 1]
            /\ \E d \in 0 .. (MaxClock - clock) :
                 LET start_time == clock
                     end_time == clock + d
                     elapsed_time == end_time - start_time
                 IN /\ clock' = end_time
                    /\ \/ /\ Raise(p, "ModelError")
                          /\ UNCHANGED << i, times, metrics_log >>
                       \/ /\ times' = [times EXCEPT ![p] = Append(@, elapsed_time)]
                          /\ metrics_log' = [metrics_log EXCEPT ![p] =
                               Append(@, IterationRecord(i[p], start_time, end_time, elapsed_time))]
                          /\ i' = [i EXCEPT ![p] = @ + 1]
                          /\ UNCHANGED << pc, exc >>
            /\ UNCHANGED << returned, avg_time, throughput >>
  /\ UNCHANGED << benchmark_args, runner_vars, model_name, constructed, cli_out, save_vars >>

\* lines 68-74 and 146-158: statistics, return, summary, test of --save-logs
Bench_Return(p) ==
  /\ pc[p] = "loop"
  /\ i[p] >= benchmark_args[p].iterations
  /\ avg_time' = [avg_time EXCEPT ![p] = AvgTime(times[p])]
  /\ throughput' = [throughput EXCEPT ![p] = Throughput(avg_time'[p])]
  /\ returned' = [returned EXCEPT ![p] = TRUE]
  /\ cli_out' = [cli_out EXCEPT ![p] = "summary"]
  /\ pc' = [pc EXCEPT ![p] = IF benchmark_args[p].save_logs THEN "check_dir" ELSE "exit0"]
  /\ UNCHANGED << benchmark_args, runner_vars, exc, model_name, constructed, calls, i,
                  times, metrics_log, save_vars, clock >>

\* line 161: if not os.path.exists("logs")
Main_CheckLogsDir(p) ==
  /\ pc[p] = "check_dir"
  /\ pc' = [pc EXCEPT ![p] = IF logs_dir THEN "save" ELSE "makedirs"]
  /\ UNCHANGED << benchmark_args, runner_vars, exc, model_name, constructed, bench_vars,
                  cli_out, save_vars, clock >>

\* line 162: os.makedirs("logs"), which fails on an existing directory
Main_MakeDirs(p) ==
  /\ pc[p] = "makedirs"
  /\ IF logs_dir
       THEN /\ Raise(p, "FileExistsError")
            /\ UNCHANGED logs_dir
       ELSE /\ logs_dir' = TRUE
            /\ pc' = [pc EXCEPT ![p] = "save"]
            /\ UNCHANGED exc
  /\ UNCHANGED << benchmark_args, runner_vars, model_name, constructed, bench_vars,
                  cli_out, timestamp_str, file_path, files, clock >>

\* lines 164-171: timestamp, file name, open(file_path, "w"), json.dump,
\* final message
Main_SaveLog(p) ==
  /\ pc[p] = "save"
  /\ timestamp_str' = [timestamp_str EXCEPT ![p] = StrfTime(clock)]
  /\ file_path' = [file_path EXCEPT ![p] = FileName(model_name[p], timestamp_str'[p])]
  /\ files' = [ f \in DOMAIN files \cup {file_path'[p]} |->
                  IF f = file_path'[p] THEN metrics_log[p] ELSE files[f] ]
  /\ cli_out' = [cli_out EXCEPT ![p] = "saved"]
  /\ pc' = [pc EXCEPT ![p] = "exit0"]
  /\ UNCHANGED << benchmark_args, runner_vars, exc, model_name, constructed, bench_vars,
                  logs_dir, clock >>

\* the wall clock reaches the next second
Tick ==
  /\ clock < MaxClock
  /\ clock' = clock + 1
  /\ UNCHANGED << benchmark_args, runner_vars, pc, exc, model_name, constructed,
                  bench_vars, cli_out, save_vars >>

CLIStep(p) ==
  \/ Main_Setup(p)
  \/ Bench_WarmUp(p)
  \/ Bench_Iteration(p)
  \/ Bench_Return(p)
  \/ Main_CheckLogsDir(p)
  \/ Main_MakeDirs(p)
  \/ Main_SaveLog(p)

\* ------------------------------------------------------ parallel_runner.py
cli_vars == << pc, exc, model_name, constructed, bench_vars, cli_out, save_vars >>

\* each child joined right after its start
Runner_Start_ThenJoin ==
  /\ ppc = "start"
  /\ Len(processes) < NumProcs
  /\ LET c == Len(processes) IN
       /\ processes' = Append(processes, c)
       /\ rpc' = [rpc EXCEPT ![c] = "begin"]
  /\ ppc' = "join"
  /\ UNCHANGED << benchmark_args, join_log, rb_out, cli_vars, clock >>

\* lines 46-49: create, record and start the next child
Runner_Start ==
  /\ ppc = "start"
  /\ Len(processes) < NumProcs
  /\ LET c == Len(processes) IN
       /\ processes' = Append(processes, c)
       /\ rpc' = [rpc EXCEPT ![c] = "begin"]
  /\ ppc' = IF Len(processes') = NumProcs THEN "join" ELSE "start"
  /\ UNCHANGED << benchmark_args, join_log, rb_out, cli_vars, clock >>

\* a join that does not wait for the child
Runner_Join_NoWait ==
  /\ ppc = "join"
  /\ Len(join_log) < Len(processes)
  /\ join_log' = Append(join_log, processes[Len(join_log) + 1])
  /\ ppc' = IF Len(join_log') = Len(processes) THEN "print" ELSE "join"
  /\ UNCHANGED << benchmark_args, processes, rpc, rb_out, cli_vars, clock >>

\* lines 52-53: join the next child of the list, blocking until it has ended
Runner_Join ==
  /\ ppc = "join"
  /\ Len(join_log) < Len(processes)
  /\ LET c == processes[Len(join_log) + 1] IN
       /\ rpc[c] = "terminated"
       /\ join_log' = Append(join_log, c)
  /\ ppc' = IF Len(join_log') = Len(processes) THEN "print" ELSE "join"
  /\ UNCHANGED << benchmark_args, processes, rpc, rb_out, cli_vars, clock >>

\* line 55: the final message
Runner_Finish ==
  /\ ppc = "print"
  /\ ppc' = "done"
  /\ UNCHANGED << benchmark_args, processes, join_log, rpc, rb_out, cli_vars, clock >>

\* lines 17-24: print the start line and launch the CLI subprocess
RunBenchmark_Begin(p) ==
  /\ rpc[p] = "begin"
  /\ rb_out' = [rb_out EXCEPT ![p] = "Starting"]
  /\ pc' = [pc EXCEPT ![p] = "main"]
  /\ rpc' = [rpc EXCEPT ![p] = "waiting"]
  /\ UNCHANGED << benchmark_args, ppc, processes, join_log, exc, model_name,
                  constructed, bench_vars, cli_out, save_vars, clock >>

\* lines 24-27: subprocess.run(check=True) returns or raises CalledProcessError
RunBenchmark_End(p) ==
  /\ rpc[p] = "waiting"
  /\ pc[p] \in {"exit0", "exit1"}
  /\ rb_out' = [rb_out EXCEPT ![p] = IF pc[p] = "exit0" THEN "Finished successfully"
                                                       ELSE "Error"]
  /\ rpc' = [rpc EXCEPT ![p] = "terminated"]
  /\ UNCHANGED << benchmark_args, ppc, processes, join_log, cli_vars, clock >>

\* ----------------------------------------------------------- specifications
Next ==
  \/ Runner_Start
  \/ Runner_Join
  \/ Runner_Finish
  \/ \E p \in Procs : RunBenchmark_Begin(p)
  \/ \E p \in Procs : RunBenchmark_End(p)
  \/ \E p \in Procs : Main_Setup(p)
  \/ \E p \in Procs : Bench_WarmUp(p)
  \/ \E p \in Procs : Bench_Iteration(p)
  \/ \E p \in Procs : Bench_Return(p)
  \/ \E p \in Procs : Main_CheckLogsDir(p)
  \/ \E p \in Procs : Main_MakeDirs(p)
  \/ \E p \in Procs : Main_SaveLog(p)
  \/ Tick

Spec == Init /\ [][Next]_vars

NextCLI ==
  \/ \E p \in Procs : Main_Setup(p)
  \/ \E p \in Procs : Bench_WarmUp(p)
  \/ \E p \in Procs : Bench_Iteration(p)
  \/ \E p \in Procs : Bench_Return(p)
  \/ \E p \in Procs : Main_CheckLogsDir(p)
  \/ \E p \in Procs : Main_MakeDirs(p)
  \/ \E p \in Procs : Main_SaveLog(p)
  \/ Tick

SpecCLI == InitCLI /\ [][NextCLI]_vars

\* ------------------------------------------------------------------ claims
Invalid(p) == Lower(benchmark_args[p].model) \notin AVAILABLE_MODELS
Ended(p) == pc[p] \in {"exit0", "exit1"}
Opened(p) == file_path[p] # <<>>
InBenchmark(p) == pc[p] \in {"warmup", "loop"} \/ calls[p] > 0 \/ returned[p]

\* C1: a benchmark_model call with iterations n >= 1 and mock_delay >= 0 that
\* returns has made n timed model calls (after the warm-up one) and yields a
\* log of exactly n records whose 'iteration' fields are 0, 1, ..., n-1 in order.
C1_LogIsIterationSequence ==
  \A p \in Procs :
    (returned[p] /\ benchmark_args[p].iterations >= 1 /\ benchmark_args[p].mock_delay >= 0)
      => /\ Len(metrics_log[p]) = benchmark_args[p].iterations
         /\ calls[p] = benchmark_args[p].iterations + 1
         /\ \A k \in DOMAIN metrics_log[p] : metrics_log[p][k].iteration = k - 1

C1_Witness ==
  /\ returned[0]
  /\ benchmark_args[0].iterations = MaxIter
  /\ benchmark_args[0].mock_delay > 0
  /\ Len(metrics_log[0]) = MaxIter

\* C2: a CLI run whose lower-cased model name is not a key of AVAILABLE_MODELS
\* never constructs a model, never invokes the model callable, never opens a
\* log file, and none of its steps creates the logs directory or a file in it
\* (with or without --save-logs).
C2_UnsupportedModelDoesNothing ==
  /\ [](\A p \in Procs :
          Invalid(p) => /\ ~constructed[p]
                        /\ calls[p] = 0
                        /\ ~Opened(p)
                        /\ pc[p] \in {"notstarted", "main", "exit0"})
  /\ [][(\A p \in Procs : pc[p] # "notstarted" => Invalid(p))
          => (logs_dir' = logs_dir /\ files' = files)]_vars

C2_Witness ==
  /\ pc[0] = "exit0"
  /\ cli_out[0] = "unsupported"
  /\ benchmark_args[0].model = <<"vgg16">>
  /\ benchmark_args[0].save_logs
  /\ ~logs_dir

\* a step of the runner or of one of its children (everything but the clock)
RunnerProgress ==
  \/ Runner_Start \/ Runner_Join \/ Runner_Finish
  \/ \E p \in Procs : RunBenchmark_Begin(p) \/ RunBenchmark_End(p) \/ CLIStep(p)

\* C3: a child whose benchmark subprocess exits non-zero reports the error from
\* its own run_benchmark and terminates normally; whatever subset of children
\* fails, the batch is never stuck before the final message, every child whose
\* subprocess exits zero reports success, and the parent prints the final
\* message only after every child has terminated and has been joined.
C3_FailuresAreIsolated ==
  /\ \A p \in Procs : (rpc[p] = "terminated" /\ pc[p] = "exit1") => rb_out[p] = "Error"
  /\ \A p \in Procs : (rpc[p] = "terminated" /\ pc[p] = "exit0")
                         => rb_out[p] = "Finished successfully"
  /\ \A p \in Procs : rpc[p] = "terminated" => Ended(p)
  /\ ppc \in {"print", "done"}
       => /\ \A p \in Procs : rpc[p] = "terminated"
          /\ Len(join_log) = NumProcs
  /\ ppc # "done" => ENABLED RunnerProgress

C3_Witness ==
  /\ ppc = "done"
  /\ \E p, q \in Procs :
       /\ pc[p] = "exit1" /\ rb_out[p] = "Error"
       /\ pc[q] = "exit0" /\ rb_out[q] = "Finished successfully"
       /\ Opened(q) /\ file_path[q] \in DOMAIN files
       /\ p < q

\* C4 (as claimed): with exactly one argument set naming an invalid model, the
\* invalid child's run ends with an error line of its run_benchmark, not with
\* "Finished successfully", and once the batch is over the two valid children
\* have written their log files.
C4_InvalidChildReportedAsFailure ==
  (Cardinality({p \in Procs : Invalid(p)}) = 1)
    => /\ \A p \in Procs : (Invalid(p) /\ rpc[p] = "terminated") => rb_out[p] = "Error"
       /\ ppc = "done" => \A p \in Procs : ~Invalid(p) => (Opened(p) /\ file_path[p] \in DOMAIN files)

\* C5: when the model callable fails (warm-up or timed iteration k), the CLI
\* process ends with the uncaught exception: benchmark_model has not returned,
\* no summary was printed and no log file was opened or written, so the
\* records of iterations 0..k-1 are not persisted.
C5_ModelFailureSavesNothing ==
  \A p \in Procs :
    exc[p] = "ModelError"
      => /\ pc[p] = "exit1"
         /\ ~returned[p]
         /\ cli_out[p] = "none"
         /\ ~Opened(p)
         /\ (ppc = "none" => files = <<>>)

C5_Witness ==
  /\ exc[0] = "ModelError"
  /\ benchmark_args[0].save_logs
  /\ Len(metrics_log[0]) >= 1
  /\ Len(metrics_log[0]) < benchmark_args[0].iterations

RECURSIVE SumInferenceTime(_)
SumInferenceTime(log) ==
  IF log = <<>> THEN 0 ELSE Head(log).inference_time + SumInferenceTime(Tail(log))

\* C6: the returned avg_time is the sum of the returned log's inference_time
\* values divided by the log length (0 for an empty log); throughput is
\* float('inf') exactly when avg_time is 0 and otherwise 1/avg_time.
C6_StatsDeterminedByLog ==
  \A p \in Procs :
    returned[p]
      => /\ avg_time[p].den > 0
         /\ IF metrics_log[p] = <<>>
              THEN avg_time[p].num = 0
              ELSE avg_time[p].num * Len(metrics_log[p])
                     = SumInferenceTime(metrics_log[p]) * avg_time[p].den
         /\ throughput[p].inf <=> (avg_time[p].num = 0)
         /\ ~throughput[p].inf
              => /\ throughput[p].den # 0
                 /\ throughput[p].num * avg_time[p].num = throughput[p].den * avg_time[p].den

C6_Witness ==
  /\ returned[0]
  /\ Len(metrics_log[0]) >= 2
  /\ metrics_log[0][1].inference_time # metrics_log[0][2].inference_time
  /\ ~throughput[0].inf

\* C7: the parent performs no join before every child has been started, and it
\* joins the children in submission order (0, 1, 2) whatever the order in
\* which they terminate.
C7_StartAllThenJoinInOrder ==
  /\ (ppc \in {"join", "print", "done"} \/ join_log # <<>>)
       => /\ Len(processes) = NumProcs
          /\ \A p \in Procs : rpc[p] # "none"
  /\ \A k \in DOMAIN processes : processes[k] = k - 1
  /\ \A k \in DOMAIN join_log : join_log[k] = k - 1

C7_Witness ==
  /\ ppc = "join"
  /\ join_log = <<0>>
  /\ rpc[2] = "terminated"
  /\ rpc[1] # "terminated"

\* C8 (as claimed): the benchmark loop is only entered with iterations > 0,
\* batch_size > 0 and mock_delay >= 0, and no empty log file is ever written.
C8_ConfigValidatedAtBoundary ==
  /\ \A p \in Procs :
       InBenchmark(p) => /\ benchmark_args[p].iterations > 0
                         /\ benchmark_args[p].batch_size > 0
                         /\ benchmark_args[p].mock_delay >= 0
  /\ \A f \in DOMAIN files : files[f] # <<>>

\* C9 (as claimed): a run with --save-logs and a valid model whose loop has
\* completed ends with its log file written under logs/ (no failure in the
\* creation of the directory), for every interleaving of the runner's children.
C9_SaveAlwaysSucceeds ==
  \A p \in Procs :
    (returned[p] /\ benchmark_args[p].save_logs /\ Ended(p))
      => /\ pc[p] = "exit0"
         /\ logs_dir
         /\ Opened(p) /\ file_path[p] \in DOMAIN files

\* C10: two CLI processes that have reached the save step use the same log
\* file path if and only if they have the same lower-cased model name and the
\* same one-second timestamp; the children of the runner's own three argument
\* sets never use the same path.
C10_SamePathIffSameModelAndSecond ==
  /\ \A p, q \in Procs :
       (p # q /\ Opened(p) /\ Opened(q))
         => ((file_path[p] = file_path[q])
               <=> (model_name[p] = model_name[q] /\ timestamp_str[p] = timestamp_str[q]))
  /\ benchmark_args = SourceArgs
       => \A p, q \in Procs : (p # q /\ Opened(p) /\ Opened(q)) => file_path[p] # file_path[q]

C10_Witness ==
  /\ Opened(0) /\ Opened(1)
  /\ file_path[0] = file_path[1]
  /\ benchmark_args[0].model # benchmark_args[1].model
  /\ cli_out[0] = "saved" /\ cli_out[1] = "saved"
  /\ Cardinality(DOMAIN files) = 1

====
